---- MODULE Spec2Model ----
(***************************************************************************)
(* A model of the pool server's coordinator (src/src/server.rs).           *)
(*                                                                         *)
(* Every inbound ServerMessage is handed to a detached task                *)
(* (Server::init, the inbound loop), so the handlers run concurrently.     *)
(* A task is modelled as a record with a program counter; one action is    *)
(* one stretch of handler code between two suspension points that touch    *)
(* shared state (a lock acquisition, an atomic, the nonce set, a channel). *)
(*                                                                         *)
(* Locks.  tokio's RwLock is fair: waiters queue in FIFO order and a       *)
(* queued writer keeps later readers out.  A write guard is never held     *)
(* across another suspension point that depends on another task, so a      *)
(* write section is one atomic step.  The read guards of                   *)
(* authenticated_provers and prover_states are held across several steps   *)
(* and are modelled with holder sets and a queue.  The per-entry           *)
(* ProverState locks, pool_state and latest_block_template* are only held  *)
(* for one access at a time and those accesses are atomic steps.           *)
(*                                                                         *)
(* Numbers.  u64::MAX is scaled down to U64_MAX; a difficulty modifier     *)
(* (an f64) is a fixed-point number with denominator GDen; the             *)
(* Speedometer crate is external and its speed() is an arbitrary           *)
(* non-negative value drawn from a small set.                              *)
(***************************************************************************)
EXTENDS Integers, Sequences, FiniteSets, TLC

\* ---------------------------------------------------------------- bounds

\* Handler tasks that may be in flight at the same time.
MaxTasks == 2
\* Handler tasks in flight at the same time where the locks are contended.
MaxLockTasks == 4
\* Room left in the outbound channel of a prover that has stopped reading.
ChannelRoom == 2
\* The scaled-down value of u64::MAX.
U64_MAX == 8
\* Largest value of speed_2m * 20.0 a prover's speedometer reports.
MaxProverSpeed == 2
\* Largest value of speed_1m / 10.0 the pool's speedometer reports, in 1/GDen.
MaxPoolSpeed == 3
\* Largest block height of a template or a submit.
MaxHeight == 2

\* Denominator of the fixed-point representation of the f64 modifier.
GDen == 2

Peers == {"p1", "p2"}
Addrs == {"A", "B"}
Nonces == {"x", "y"}
Heights == 1..MaxHeight
\* difficulty_target values of the templates the operator supplies.
TemplateTargets == {3}
\* Err: PoSWProof::to_proof_difficulty() returned Err.
Err == 0
ProofDifficulties == {Err, 1, 5}
Tasks == 1..MaxLockTasks

\* ---------------------------------------------------------------- state

VARIABLES
    connected_provers,          \* set of peers
    authenticated_provers,      \* set of peers (peer -> its outbound sender)
    prover_states,              \* peer -> ProverState, on a subset of Peers
    prover_address_connections, \* address -> set of peers, on a subset of Addrs
    pool_state,                 \* the two global difficulty modifiers
    latest_block_height,        \* AtomicU32
    latest_block_template,      \* Option<BlockTemplate>: <<>> or <<t>>
    latest_block_template_header_tree, \* Option<BlockHeaderTree>
    nonce_seen,                 \* set of nonce strings
    authLock,                   \* RwLock of authenticated_provers
    statesLock,                 \* RwLock of prover_states
    tasks,                      \* the spawned handler tasks
    told,                       \* per peer: target of the last SetTarget sent
    window,                     \* what happened since the last clear of nonce_seen
    env,                        \* the inputs the environment draws from
    outbound                    \* per peer: the messages waiting in its channel

vars == <<connected_provers, authenticated_provers, prover_states,
          prover_address_connections, pool_state, latest_block_height,
          latest_block_template, latest_block_template_header_tree,
          nonce_seen, authLock, statesLock, tasks, told, window, env,
          outbound>>

\* What the handlers other than ProverSubmit's success path leave alone.
maps == <<connected_provers, authenticated_provers, prover_states,
          prover_address_connections>>
template == <<latest_block_height, latest_block_template,
              latest_block_template_header_tree>>
locks == <<authLock, statesLock>>

\* ---------------------------------------------------------------- helpers

Max(a, b) == IF a >= b THEN a ELSE b
Min(a, b) == IF a <= b THEN a ELSE b

\* A remove that keeps the key and drops every other entry.
MapRemoveOthers(m, k) == [x \in DOMAIN m \cap {k} |-> m[x]]

\* HashMap::insert / HashMap::remove on a function with a dynamic domain.
MapInsert(m, k, v) == [x \in DOMAIN m \cup {k} |-> IF x = k THEN v ELSE m[x]]
MapRemove(m, k) == [x \in DOMAIN m \ {k} |-> m[x]]
EmptyMap == [x \in {} |-> 0]

\* ProverState::new: both difficulties start at 1.
NewProverState(address) ==
    [address |-> address, current_difficulty |-> 1, next_difficulty |-> 1]

\* add_share without the floor of 1.
ProverAddShareNoFloor(st, speed20) ==
    [st EXCEPT !.next_difficulty = speed20]

\* add_share that applies the new difficulty at once.
ProverAddShareRetarget(st, speed20) ==
    [st EXCEPT !.next_difficulty = Max(speed20, 1),
               !.current_difficulty = Max(speed20, 1)]

\* ProverState::add_share: next_difficulty = ((speed_2m * 20.0) as u64).max(1),
\* where speed20 is the value of speed_2m * 20.0 truncated by the cast.
ProverAddShare(st, speed20) ==
    [st EXCEPT !.next_difficulty = Max(speed20, 1)]

\* ProverState::next_difficulty: promote next to current.
ProverPromote(st) == [st EXCEPT !.current_difficulty = st.next_difficulty]

\* PoolState::new: both modifiers start at 1.0.
NewPoolState == [current_global_difficulty_modifier |-> GDen,
                 next_global_difficulty_modifier |-> GDen]

\* PoolState::add_share: next modifier = (speed_1m / 10.0).max(1f64),
\* where speed10 is speed_1m / 10.0 in units of 1/GDen.
PoolAddShare(ps, speed10) ==
    [ps EXCEPT !.next_global_difficulty_modifier = Max(speed10, GDen)]

\* PoolState::next_global_difficulty_modifier: promote next to current.
PoolPromote(ps) ==
    [ps EXCEPT !.current_global_difficulty_modifier =
                   ps.next_global_difficulty_modifier]

\* (d as f64 * g) as u64: the cast truncates toward zero (and saturates).
ScaledDifficulty(d, g) == Min((d * g) \div GDen, U64_MAX)

\* u64::MAX / difficulty.
TargetOf(difficulty) == U64_MAX \div difficulty

\* BlockTemplate::to_header_tree: the tree is a function of the template.
HeaderTree(t) == [root |-> <<t.block_height, t.difficulty_target>>,
                  block_height |-> t.block_height]

\* ---------------------------------------------------------------- locks

\* A lock is its set of read-guard holders and its FIFO queue of waiters.
FreeLock == [r |-> {}, q |-> <<>>]

\* Whether task t gets a write (read) guard now; a task that has queued gets
\* it when it is first in the queue, a newcomer only when nobody waits.
CanWrite(L, t) ==
    /\ L.r = {}
    /\ IF tasks[t].waiting THEN Head(L.q) = t ELSE L.q = <<>>
CanRead(L, t) ==
    IF tasks[t].waiting THEN Head(L.q) = t ELSE L.q = <<>>

\* The lock after t got its guard (a write guard is dropped in the same step).
Passed(L, t) == IF tasks[t].waiting THEN [L EXCEPT !.q = Tail(@)] ELSE L
ReadHeld(L, t) == [Passed(L, t) EXCEPT !.r = @ \cup {t}]
Released(L, t) == [L EXCEPT !.r = @ \ {t}]

\* ---------------------------------------------------------------- tasks

Idle == [kind |-> "idle", pc |-> "idle", waiting |-> FALSE]

\* The inbound loop spawns one detached task per message; the slot a task
\* takes carries no meaning, so a new task takes the lowest free one.
FreeSlot(t) ==
    /\ t \in env.tasks
    /\ tasks[t].kind = "idle"
    /\ \A u \in Tasks : u < t => tasks[u].kind # "idle"

At(t, kind, pc) == tasks[t].kind = kind /\ tasks[t].pc = pc

\* Task t moves on to pc (no longer queued on a lock).
Goto(t, pc) == [tasks EXCEPT ![t].pc = pc, ![t].waiting = FALSE]

\* The lock a task is about to request, from its position in the handler.
LockWanted(tk) ==
    CASE tk.pc \in {"a1", "d4"} -> "authW"
      [] tk.pc \in {"a2", "d1"} -> "statesW"
      [] tk.pc \in {"n6", "s4"} -> "authR"
      [] tk.pc = "s3" -> "statesR"
      [] tk.pc = "n7" -> IF tk.todo # {} THEN "statesR" ELSE "none"
      [] OTHER -> "none"

\* The locks a task requests in the step it is about to take, by the name of
\* the field they guard ("entry": the RwLock of one ProverState).
Requests(tk) ==
    CASE tk.pc \in {"a1", "d4", "n6", "s4"} -> {"authenticated_provers"}
      [] tk.pc \in {"a2", "d1", "s3"} -> {"prover_states"}
      [] tk.pc = "n7" -> IF tk.todo # {} THEN {"prover_states"} ELSE {}
      [] tk.pc \in {"n9", "s10", "s14", "s16"} -> {"entry"}
      [] tk.pc \in {"n5", "s2", "s15"} -> {"pool_state"}
      [] tk.pc \in {"a3", "d2"} -> {"prover_address_connections"}
      [] tk.pc \in {"a5", "n2", "n3"} -> {"latest_block_template"}
      [] tk.pc = "s7" -> {"entry", "latest_block_template"}
      [] OTHER -> {}

\* The guards task t holds across steps.
Held(t) ==
    {l \in {"authenticated_provers"} : t \in authLock.r}
        \cup {l \in {"prover_states"} : t \in statesLock.r}

\* RwLock::read / RwLock::write that cannot be granted at once: the task
\* joins the lock's queue and stays suspended until it is first in it.
Wait(t) ==
    /\ ~tasks[t].waiting
    /\ LET w == LockWanted(tasks[t]) IN
       /\ w # "none"
       /\ CASE w = "authW" -> ~CanWrite(authLock, t)
            [] w = "authR" -> ~CanRead(authLock, t)
            [] w = "statesW" -> ~CanWrite(statesLock, t)
            [] w = "statesR" -> ~CanRead(statesLock, t)
       /\ IF w \in {"authW", "authR"}
          THEN /\ authLock' = [authLock EXCEPT !.q = Append(@, t)]
               /\ UNCHANGED statesLock
          ELSE /\ statesLock' = [statesLock EXCEPT !.q = Append(@, t)]
               /\ UNCHANGED authLock
    /\ tasks' = [tasks EXCEPT ![t].waiting = TRUE]
    /\ UNCHANGED <<maps, pool_state, template, nonce_seen, told, window, env,
                   outbound>>

\* ------------------------------------------------- outbound channels

\* The connection of peer p is open: its task has not sent the
\* ProverDisconnected that ends it.
Open(p) ==
    /\ p \in connected_provers
    /\ \A u \in Tasks :
           tasks[u].kind = "ProverDisconnected" => tasks[u].peer # p

\* sender.send(msg).await returns: at once with an error when the connection
\* task is gone, at once when the task takes its messages, and otherwise
\* when the channel has room.
CanSend(p) ==
    \/ p \notin env.undrained
    \/ ~Open(p)
    \/ Len(outbound[p]) < ChannelRoom

\* The channels after sender.send(msg).await has returned: the message waits
\* in the channel of a peer that has stopped reading.
Delivered(p, msg) ==
    IF p \in env.undrained /\ Open(p)
    THEN [outbound EXCEPT ![p] = Append(@, msg)]
    ELSE outbound

\* StratumMessage::Notify(job_id, header_root, hashed_leaves.., clean_jobs)
Notify(job_id, tree) == <<"Notify", job_id, tree.root, TRUE>>

\* StratumMessage::SetTarget(target)
SetTarget(target) == <<"SetTarget", target>>

\* ------------------------------------------------- ProverConnected

ReceiveProverConnected(t, p) ==
    /\ FreeSlot(t)
    /\ tasks' = [tasks EXCEPT ![t] =
           [kind |-> "ProverConnected", pc |-> "c1", waiting |-> FALSE,
            peer |-> p]]
    /\ UNCHANGED <<maps, pool_state, template, nonce_seen, locks, told, window, env,
                   outbound>>

\* connected_provers.write().await.insert(peer_addr)
ProverConnected(t) ==
    /\ At(t, "ProverConnected", "c1")
    /\ connected_provers' = connected_provers \cup {tasks[t].peer}
    /\ tasks' = [tasks EXCEPT ![t] = Idle]
    /\ UNCHANGED <<authenticated_provers, prover_states,
                   prover_address_connections, pool_state, template,
                   nonce_seen, locks, told, window, env,
                   outbound>>

\* ------------------------------------------------- ProverAuthenticated

ReceiveProverAuthenticated(t, p, a) ==
    /\ FreeSlot(t)
    /\ tasks' = [tasks EXCEPT ![t] =
           [kind |-> "ProverAuthenticated", pc |-> "a1", waiting |-> FALSE,
            peer |-> p, address |-> a]]
    /\ UNCHANGED <<maps, pool_state, template, nonce_seen, locks, told, window, env,
                   outbound>>

\* authenticated_provers.write().await.insert(peer_addr, sender.clone())
AuthInsertSender(t) ==
    /\ At(t, "ProverAuthenticated", "a1")
    /\ CanWrite(authLock, t)
    /\ authLock' = Passed(authLock, t)
    /\ authenticated_provers' = authenticated_provers \cup {tasks[t].peer}
    /\ tasks' = Goto(t, "a2")
    /\ UNCHANGED <<connected_provers, prover_states,
                   prover_address_connections, pool_state, template,
                   nonce_seen, statesLock, told, window, env,
                   outbound>>

\* prover_states.write().await.insert(peer_addr, ProverState::new(..))
AuthInsertState(t) ==
    /\ At(t, "ProverAuthenticated", "a2")
    /\ CanWrite(statesLock, t)
    /\ statesLock' = Passed(statesLock, t)
    /\ prover_states' = MapInsert(prover_states, tasks[t].peer,
                                  NewProverState(tasks[t].address))
    /\ tasks' = Goto(t, "a3")
    /\ UNCHANGED <<connected_provers, authenticated_provers,
                   prover_address_connections, pool_state, template,
                   nonce_seen, authLock, told, window, env,
                   outbound>>

\* The set of an address gains the peer; a missing key is created with it.
ConnectionsInsert(pac, a, p) ==
    IF a \in DOMAIN pac
    THEN [pac EXCEPT ![a] = @ \cup {p}]
    ELSE MapInsert(pac, a, {p})

AuthInsertConnection(t) ==
    /\ At(t, "ProverAuthenticated", "a3")
    /\ prover_address_connections' =
           ConnectionsInsert(prover_address_connections,
                             tasks[t].address, tasks[t].peer)
    /\ tasks' = Goto(t, "a4")
    /\ UNCHANGED <<connected_provers, authenticated_provers, prover_states,
                   pool_state, template, nonce_seen, locks, told, window, env,
                   outbound>>

\* sender.send(StratumMessage::SetTarget(u64::MAX))
AuthSendTarget(t) ==
    /\ At(t, "ProverAuthenticated", "a4")
    /\ CanSend(tasks[t].peer)
    /\ outbound' = Delivered(tasks[t].peer, SetTarget(U64_MAX))
    /\ told' = [told EXCEPT ![tasks[t].peer] = U64_MAX]
    /\ tasks' = Goto(t, "a5")
    /\ UNCHANGED <<maps, pool_state, template, nonce_seen, locks, window, env>>

\* The Notify for the cached header tree, if there is one; its job_id is
\* the latest block height.
AuthSendNotify(t) ==
    /\ At(t, "ProverAuthenticated", "a5")
    /\ IF latest_block_template_header_tree = <<>>
       THEN UNCHANGED outbound
       ELSE /\ CanSend(tasks[t].peer)
            /\ outbound' =
                   Delivered(tasks[t].peer,
                             Notify(latest_block_height,
                                    latest_block_template_header_tree[1]))
    /\ tasks' = [tasks EXCEPT ![t] = Idle]
    /\ UNCHANGED <<maps, pool_state, template, nonce_seen, locks, told, window, env>>

\* ------------------------------------------------- ProverDisconnected

ReceiveProverDisconnected(t, p) ==
    /\ FreeSlot(t)
    /\ tasks' = [tasks EXCEPT ![t] =
           [kind |-> "ProverDisconnected", pc |-> "d1", waiting |-> FALSE,
            peer |-> p, address |-> <<>>]]
    /\ UNCHANGED <<maps, pool_state, template, nonce_seen, locks, told, window, env,
                   outbound>>

\* let state = prover_states.write().await.remove(&peer_addr); the address
\* of the removed state, if there was one.
DiscRemoveState(t) ==
    /\ At(t, "ProverDisconnected", "d1")
    /\ CanWrite(statesLock, t)
    /\ statesLock' = Passed(statesLock, t)
    /\ LET p == tasks[t].peer IN
       /\ prover_states' = MapRemove(prover_states, p)
       /\ tasks' = IF p \in DOMAIN prover_states
                   THEN [tasks EXCEPT ![t].pc = "d2", ![t].waiting = FALSE,
                             ![t].address = <<prover_states[p].address>>]
                   ELSE Goto(t, "d3")
    /\ UNCHANGED <<connected_provers, authenticated_provers,
                   prover_address_connections, pool_state, template,
                   nonce_seen, authLock, told, window, env,
                   outbound>>

\* The peer removed from the set of its address, the emptied set left behind.
ConnectionsRemoveKeepKey(pac, a, p) ==
    IF a \in DOMAIN pac THEN [pac EXCEPT ![a] = @ \ {p}] ELSE pac

\* The set of an address loses the peer; the key goes with its last peer.
ConnectionsRemove(pac, a, p) ==
    IF a \in DOMAIN pac
    THEN IF pac[a] \ {p} = {}
         THEN MapRemove(pac, a)
         ELSE [pac EXCEPT ![a] = @ \ {p}]
    ELSE pac

DiscRemoveConnection(t) ==
    /\ At(t, "ProverDisconnected", "d2")
    /\ prover_address_connections' =
           ConnectionsRemove(prover_address_connections,
                             tasks[t].address[1], tasks[t].peer)
    /\ tasks' = Goto(t, "d3")
    /\ UNCHANGED <<connected_provers, authenticated_provers, prover_states,
                   pool_state, template, nonce_seen, locks, told, window, env,
                   outbound>>

\* connected_provers.write().await.remove(&peer_addr)
DiscRemoveConnected(t) ==
    /\ At(t, "ProverDisconnected", "d3")
    /\ connected_provers' = connected_provers \ {tasks[t].peer}
    /\ tasks' = Goto(t, "d4")
    /\ UNCHANGED <<authenticated_provers, prover_states,
                   prover_address_connections, pool_state, template,
                   nonce_seen, locks, told, window, env,
                   outbound>>

\* authenticated_provers.write().await.remove(&peer_addr): the server drops
\* its sender of the peer's outbound channel.
DiscRemoveSender(t) ==
    /\ At(t, "ProverDisconnected", "d4")
    /\ CanWrite(authLock, t)
    /\ authLock' = Passed(authLock, t)
    /\ authenticated_provers' = authenticated_provers \ {tasks[t].peer}
    /\ told' = IF tasks[t].peer \in authenticated_provers
               THEN [told EXCEPT ![tasks[t].peer] = 0]
               ELSE told
    /\ tasks' = [tasks EXCEPT ![t] = Idle]
    /\ UNCHANGED <<connected_provers, prover_states,
                   prover_address_connections, pool_state, template,
                   nonce_seen, statesLock, window, env, outbound>>

\* The three maps as one value.
Maps == [authenticated_provers |-> authenticated_provers,
         prover_states |-> prover_states,
         prover_address_connections |-> prover_address_connections]

\* The maps after a whole ProverAuthenticated(p, a, sender) handler ran on m
\* with no other handler in between: the three insertions in turn.
AuthenticatedMaps(m, p, a) ==
    [authenticated_provers |-> m.authenticated_provers \cup {p},
     prover_states |-> MapInsert(m.prover_states, p, NewProverState(a)),
     prover_address_connections |->
         ConnectionsInsert(m.prover_address_connections, a, p)]

\* The maps after a whole ProverDisconnected(p) handler ran on m with no other
\* handler in between: the state is removed, then the peer from the set of
\* the removed state's address, then the sender.
DisconnectedMaps(m, p) ==
    [authenticated_provers |-> m.authenticated_provers \ {p},
     prover_states |-> MapRemove(m.prover_states, p),
     prover_address_connections |->
         IF p \in DOMAIN m.prover_states
         THEN ConnectionsRemove(m.prover_address_connections,
                                m.prover_states[p].address, p)
         ELSE m.prover_address_connections]

\* ------------------------------------------------- NewBlockTemplate

ReceiveNewBlockTemplate(t, h, tg) ==
    /\ FreeSlot(t)
    /\ tasks' = [tasks EXCEPT ![t] =
           [kind |-> "NewBlockTemplate", pc |-> "n1", waiting |-> FALSE,
            template |-> [block_height |-> h, difficulty_target |-> tg],
            modifier |-> 0, todo |-> {}, peer |-> "-",
            current_difficulty |-> 0, next_difficulty |-> 0]]
    /\ UNCHANGED <<maps, pool_state, template, nonce_seen, locks, told, window, env,
                   outbound>>

\* latest_block_height.store(block_template.block_height())
TemplateStoreHeight(t) ==
    /\ At(t, "NewBlockTemplate", "n1")
    /\ latest_block_height' = tasks[t].template.block_height
    /\ tasks' = Goto(t, "n2")
    /\ UNCHANGED <<maps, pool_state, latest_block_template,
                   latest_block_template_header_tree, nonce_seen, locks,
                   told, window, env,
                   outbound>>

\* latest_block_template.write().await.replace(block_template.clone())
TemplateReplace(t) ==
    /\ At(t, "NewBlockTemplate", "n2")
    /\ latest_block_template' = <<tasks[t].template>>
    /\ tasks' = Goto(t, "n3")
    /\ UNCHANGED <<maps, pool_state, latest_block_height,
                   latest_block_template_header_tree, nonce_seen, locks,
                   told, window, env,
                   outbound>>

\* latest_block_template_header_tree.write().await.replace(header_tree)
TemplateReplaceTree(t) ==
    /\ At(t, "NewBlockTemplate", "n3")
    /\ latest_block_template_header_tree' = <<HeaderTree(tasks[t].template)>>
    /\ tasks' = Goto(t, "n5")
    /\ UNCHANGED <<maps, pool_state, latest_block_height,
                   latest_block_template, nonce_seen, locks, told, window, env,
                   outbound>>

\* SetN goes to accounting, then
\* pool_state.write().await.next_global_difficulty_modifier().await
TemplatePromotePool(t) ==
    /\ At(t, "NewBlockTemplate", "n5")
    /\ pool_state' = PoolPromote(pool_state)
    /\ tasks' = [tasks EXCEPT ![t].pc = "n6",
                     ![t].modifier =
                         PoolPromote(pool_state).current_global_difficulty_modifier]
    /\ UNCHANGED <<maps, template, nonce_seen, locks, told, window, env,
                   outbound>>

\* for (peer_addr, sender) in authenticated_provers.read().await.clone().iter():
\* the read guard is a temporary of the iterator expression and lives until
\* the loop ends.
TemplateSnapshot(t) ==
    /\ At(t, "NewBlockTemplate", "n6")
    /\ CanRead(authLock, t)
    /\ authLock' = ReadHeld(authLock, t)
    /\ tasks' = [tasks EXCEPT ![t].pc = "n7", ![t].waiting = FALSE,
                     ![t].todo = authenticated_provers]
    /\ UNCHANGED <<maps, pool_state, template, nonce_seen, statesLock,
                   told, window, env,
                   outbound>>

\* One iteration, up to the read of current_difficulty: the next peer of the
\* snapshot (a HashMap iterates in no particular order), prover_states.read(),
\* the lookup (a missing state: continue, which drops the guard).
TemplateLookup(t) ==
    /\ At(t, "NewBlockTemplate", "n7")
    /\ tasks[t].todo # {}
    /\ CanRead(statesLock, t)
    /\ \E p \in tasks[t].todo :
          IF p \in DOMAIN prover_states
          THEN /\ statesLock' = ReadHeld(statesLock, t)
               /\ tasks' = [tasks EXCEPT ![t].pc = "n9", ![t].waiting = FALSE,
                     ![t].peer = p,
                     ![t].current_difficulty =
                         prover_states[p].current_difficulty]
          ELSE /\ statesLock' = Passed(statesLock, t)
               /\ tasks' = [tasks EXCEPT ![t].waiting = FALSE,
                                ![t].todo = @ \ {p}]
    /\ UNCHANGED <<maps, pool_state, template, nonce_seen, authLock,
                   told, window, env,
                   outbound>>

\* (prover_state.write().await.next_difficulty().await as f64
\*      * global_difficulty_modifier) as u64; drop(states)
TemplatePromoteProver(t) ==
    /\ At(t, "NewBlockTemplate", "n9")
    /\ LET p == tasks[t].peer
           st == ProverPromote(prover_states[p]) IN
       /\ prover_states' = [prover_states EXCEPT ![p] = st]
       /\ tasks' = [tasks EXCEPT ![t].pc = "n10",
                        ![t].next_difficulty =
                            ScaledDifficulty(st.current_difficulty,
                                             tasks[t].modifier)]
    /\ statesLock' = Released(statesLock, t)
    /\ UNCHANGED <<connected_provers, authenticated_provers,
                   prover_address_connections, pool_state, template,
                   nonce_seen, authLock, told, window, env,
                   outbound>>

\* A fan-out that sends a SetTarget before every Notify.
TargetChangedAlways(current_difficulty, next_difficulty) == TRUE

\* Whether the fan-out sends a SetTarget before the Notify.
TargetChanged(current_difficulty, next_difficulty) ==
    current_difficulty # next_difficulty

\* SetTarget(u64::MAX / next_difficulty) if the difficulty changed.
TemplateSendTarget(t) ==
    /\ At(t, "NewBlockTemplate", "n10")
    /\ IF TargetChanged(tasks[t].current_difficulty, tasks[t].next_difficulty)
       THEN /\ CanSend(tasks[t].peer)
            /\ outbound' =
                   Delivered(tasks[t].peer,
                             SetTarget(TargetOf(tasks[t].next_difficulty)))
            /\ told' = [told EXCEPT ![tasks[t].peer] =
                            TargetOf(tasks[t].next_difficulty)]
       ELSE UNCHANGED <<outbound, told>>
    /\ tasks' = Goto(t, "n11")
    /\ UNCHANGED <<maps, pool_state, template, nonce_seen, locks, window, env>>

\* The Notify of the new job; on to the next peer of the snapshot.
TemplateSend(t) ==
    /\ At(t, "NewBlockTemplate", "n11")
    /\ CanSend(tasks[t].peer)
    /\ outbound' = Delivered(tasks[t].peer,
                             Notify(tasks[t].template.block_height,
                                    HeaderTree(tasks[t].template)))
    /\ tasks' = [tasks EXCEPT ![t].pc = "n7", ![t].todo = @ \ {tasks[t].peer},
                     ![t].peer = "-", ![t].current_difficulty = 0,
                     ![t].next_difficulty = 0]
    /\ UNCHANGED <<maps, pool_state, template, nonce_seen, locks, told, window, env>>

\* The loop ends and the read guard of authenticated_provers is dropped.
TemplateDone(t) ==
    /\ At(t, "NewBlockTemplate", "n7")
    /\ tasks[t].todo = {}
    /\ ~tasks[t].waiting
    /\ authLock' = Released(authLock, t)
    /\ tasks' = [tasks EXCEPT ![t] = Idle]
    /\ UNCHANGED <<maps, pool_state, template, nonce_seen, statesLock,
                   told, window, env,
                   outbound>>

\* ------------------------------------------------- ProverSubmit

\* A send_result that answers every rejection with the same code.
ErrorCodeOther(desc) == 20

\* The Stratum error code send_result is given with each message.
ErrorCode(desc) ==
    CASE desc = "Unknown prover" -> 24
      [] desc = "No block template" -> 21
      [] desc = "Stale proof" -> 21
      [] desc = "Duplicate nonce" -> 22
      [] desc = "No difficulty" -> 23
      [] desc = "Difficulty target not met" -> 23
      [] desc = "Invalid proof" -> 26

\* send_result: Response(id, Bool(true)) or Response(id, Error{code, desc}).
SendResult(result, desc) ==
    IF result
    THEN <<"Response", TRUE, 0, "">>
    ELSE <<"Response", FALSE, ErrorCode(desc), desc>>

\* Testnet2::posw().verify(block_height, difficulty_target,
\* [header_root, nonce], proof): a proof verifies when it is sound over the
\* header root of block_template, the template the validation has read,
\* and the nonce, and meets the target it is verified against.  The
\* submitted block_height is no input of the proof: what ties the proof to
\* a template is the header root alone.
PoSWVerify(block_height, difficulty_target, block_template, proof) ==
    /\ proof.valid
    /\ proof.difficulty <= difficulty_target

ReceiveProverSubmit(t, p, h, n) ==
    /\ FreeSlot(t)
    /\ tasks' = [tasks EXCEPT ![t] =
           [kind |-> "ProverSubmit", pc |-> "s1", waiting |-> FALSE,
            peer |-> p, block_height |-> h, nonce |-> n,
            proof |-> <<>>,
            latest_block_height |-> 0, modifier |-> 0,
            block_template |-> <<>>, difficulty |-> 0,
            checks |-> <<>>, effects |-> <<>>, result |-> "",
            target |-> 0]]
    /\ UNCHANGED <<maps, pool_state, template, nonce_seen, locks, told, window, env,
                   outbound>>

\* let latest_block_height = self.latest_block_height.load(SeqCst)
SubmitLoadHeight(t) ==
    /\ At(t, "ProverSubmit", "s1")
    /\ tasks' = [tasks EXCEPT ![t].pc = "s2",
                     ![t].latest_block_height = latest_block_height]
    /\ UNCHANGED <<maps, pool_state, template, nonce_seen, locks, told, window, env,
                   outbound>>

\* pool_state.read().await.current_global_difficulty_modifier(); the
\* validation task is spawned with the two sampled values.
SubmitLoadModifier(t) ==
    /\ At(t, "ProverSubmit", "s2")
    /\ tasks' = [tasks EXCEPT ![t].pc = "s3",
                     ![t].modifier =
                         pool_state.current_global_difficulty_modifier]
    /\ UNCHANGED <<maps, pool_state, template, nonce_seen, locks, told, window, env,
                   outbound>>

\* let states = prover_states.read().await
SubmitReadStates(t) ==
    /\ At(t, "ProverSubmit", "s3")
    /\ CanRead(statesLock, t)
    /\ statesLock' = ReadHeld(statesLock, t)
    /\ tasks' = Goto(t, "s4")
    /\ UNCHANGED <<maps, pool_state, template, nonce_seen, authLock,
                   told, window, env,
                   outbound>>

\* The task returns: its result, the checks it evaluated and what it sent are
\* kept until the task is retired; both read guards are dropped.
Return(t, desc, checks, effects) ==
    [tasks EXCEPT ![t].pc = "done", ![t].waiting = FALSE, ![t].result = desc,
                  ![t].checks = checks, ![t].effects = effects]

Reject(t, desc, checks) ==
    Return(t, desc, checks, Append(tasks[t].effects, SendResult(FALSE, desc)))

\* The send of send_result: the Response a step of task t adds to what the
\* task has sent goes to the channel of its peer, once there is room.
SubmitSent(t) ==
    LET before == tasks[t].effects
        after == tasks'[t].effects IN
    IF Len(after) > Len(before) /\ after[Len(after)][1] = "Response"
    THEN /\ CanSend(tasks[t].peer)
         /\ outbound' = Delivered(tasks[t].peer, after[Len(after)])
    ELSE UNCHANGED outbound

\* let provers = authenticated_provers.read().await; the sender and the
\* ProverState of the peer are looked up under the two guards.
SubmitLookup(t) ==
    /\ At(t, "ProverSubmit", "s4")
    /\ CanRead(authLock, t)
    /\ LET p == tasks[t].peer IN
       IF p \notin authenticated_provers
       THEN /\ tasks' = Return(t, "Sender not found", <<>>, <<>>)
            /\ authLock' = Passed(authLock, t)
            /\ statesLock' = Released(statesLock, t)
       ELSE IF p \notin DOMAIN prover_states
       THEN /\ tasks' = Reject(t, "Unknown prover", <<FALSE>>)
            /\ authLock' = Passed(authLock, t)
            /\ statesLock' = Released(statesLock, t)
       ELSE /\ tasks' = [tasks EXCEPT ![t].pc = "s7", ![t].waiting = FALSE,
                             ![t].checks = <<TRUE>>]
            /\ authLock' = ReadHeld(authLock, t)
            /\ UNCHANGED statesLock
    /\ SubmitSent(t)
    /\ UNCHANGED <<maps, pool_state, template, nonce_seen, told, window, env>>

\* The height check left out.
IsStaleNever(block_height, sampled_height) == FALSE

\* if block_height != latest_block_height
IsStale(block_height, sampled_height) == block_height # sampled_height

\* latest_block_template.read().await.clone(), then the height check against
\* the height sampled before the task was spawned.
SubmitReadTemplate(t) ==
    /\ At(t, "ProverSubmit", "s7")
    /\ LET c == tasks[t].checks IN
       IF latest_block_template = <<>>
       THEN tasks' = Reject(t, "No block template", Append(c, FALSE))
       ELSE IF IsStale(tasks[t].block_height, tasks[t].latest_block_height)
       THEN tasks' = Reject(t, "Stale proof", c \o <<TRUE, FALSE>>)
       ELSE tasks' = [tasks EXCEPT ![t].pc = "s9",
                          ![t].block_template = latest_block_template,
                          ![t].checks = c \o <<TRUE, TRUE>>]
    /\ IF tasks'[t].pc = "done"
       THEN /\ authLock' = Released(authLock, t)
            /\ statesLock' = Released(statesLock, t)
       ELSE UNCHANGED locks
    /\ SubmitSent(t)
    /\ UNCHANGED <<maps, pool_state, template, nonce_seen, told, window, env>>

\* A nonce set that never reports a nonce as seen.
SeenNonceNever(seen, nonce) == FALSE

\* Server::seen_nonce: !nonce_seen.pin().insert(nonce), one atomic insert.
SeenNonce(seen, nonce) == nonce \in seen

SubmitCheckNonce(t) ==
    /\ At(t, "ProverSubmit", "s9")
    /\ nonce_seen' = nonce_seen \cup {tasks[t].nonce}
    /\ IF SeenNonce(nonce_seen, tasks[t].nonce)
       THEN /\ tasks' = Reject(t, "Duplicate nonce",
                               Append(tasks[t].checks, FALSE))
            /\ authLock' = Released(authLock, t)
            /\ statesLock' = Released(statesLock, t)
       ELSE /\ tasks' = [tasks EXCEPT ![t].pc = "s10",
                             ![t].checks = Append(@, TRUE)]
            /\ UNCHANGED locks
    /\ window' = IF SeenNonce(nonce_seen, tasks[t].nonce)
                 THEN window
                 ELSE [window EXCEPT !.passed[tasks[t].nonce] = Min(@ + 1, 2)]
    /\ SubmitSent(t)
    /\ UNCHANGED <<maps, pool_state, template, told, env>>

\* The checks of the proof without the comparison with the share target.
ProofVerdictNoTarget(proof, block_height, difficulty_target, block_template) ==
    IF proof.difficulty = Err
    THEN "No difficulty"
    ELSE IF ~proof.valid
    THEN "Invalid proof"
    ELSE ""

\* The checks of the proof with the verification before the comparison with
\* the share target.
ProofVerdictVerifyFirst(proof, block_height, difficulty_target, block_template) ==
    IF proof.difficulty = Err
    THEN "No difficulty"
    ELSE IF ~PoSWVerify(block_height, difficulty_target, block_template, proof)
    THEN "Invalid proof"
    ELSE IF proof.difficulty > difficulty_target
    THEN "Difficulty target not met"
    ELSE ""

\* The three checks of the proof, in the order of the code: the message of
\* the first that fails, "" when the proof passes all of them.
ProofVerdict(proof, block_height, difficulty_target, block_template) ==
    IF proof.difficulty = Err
    THEN "No difficulty"
    ELSE IF proof.difficulty > difficulty_target
    THEN "Difficulty target not met"
    ELSE IF ~PoSWVerify(block_height, difficulty_target, block_template, proof)
    THEN "Invalid proof"
    ELSE ""

\* The share difficulty from the prover's current difficulty and the sampled
\* modifier, then the three checks of the proof.  Nothing looks into the
\* proof before this step, so what the submitted proof is (its difficulty,
\* or none, and whether it is sound) is drawn here.
SubmitCheckProof(t) ==
    /\ At(t, "ProverSubmit", "s10")
    /\ \E pd \in env.proof_difficulties, v \in BOOLEAN :
       LET p == tasks[t].peer
           c == tasks[t].checks
           proof == [difficulty |-> pd, valid |-> v]
           difficulty ==
               ScaledDifficulty(prover_states[p].current_difficulty,
                                tasks[t].modifier)
           difficulty_target == TargetOf(difficulty)
           seen == [tasks EXCEPT ![t].difficulty = difficulty,
                                 ![t].target = difficulty_target,
                                 ![t].proof = <<proof>>]
           desc == ProofVerdict(proof, tasks[t].block_height,
                                difficulty_target,
                                tasks[t].block_template[1]) IN
       tasks' = CASE desc = "No difficulty" ->
                     [seen EXCEPT ![t].pc = "done", ![t].result = desc,
                         ![t].checks = Append(c, FALSE),
                         ![t].effects = Append(@, SendResult(FALSE, desc))]
                  [] desc = "Difficulty target not met" ->
                     [seen EXCEPT ![t].pc = "done", ![t].result = desc,
                         ![t].checks = c \o <<TRUE, FALSE>>,
                         ![t].effects = Append(@, SendResult(FALSE, desc))]
                  [] desc = "Invalid proof" ->
                     [seen EXCEPT ![t].pc = "done", ![t].result = desc,
                         ![t].checks = c \o <<TRUE, TRUE, FALSE>>,
                         ![t].effects = Append(@, SendResult(FALSE, desc))]
                  [] OTHER ->
                     [seen EXCEPT ![t].pc = "s14",
                         ![t].checks = c \o <<TRUE, TRUE, TRUE>>]
    /\ IF tasks'[t].pc = "done"
       THEN /\ authLock' = Released(authLock, t)
            /\ statesLock' = Released(statesLock, t)
       ELSE UNCHANGED locks
    /\ SubmitSent(t)
    /\ UNCHANGED <<maps, pool_state, template, nonce_seen, told, window, env>>

\* prover_state.write().await.add_share(difficulty).await
SubmitAddShareProver(t) ==
    /\ At(t, "ProverSubmit", "s14")
    /\ \E speed20 \in env.prover_speeds :
          prover_states' = [prover_states EXCEPT ![tasks[t].peer] =
                               ProverAddShare(@, speed20)]
    /\ tasks' = [tasks EXCEPT ![t].pc = "s15",
                     ![t].effects = Append(@,
                         <<"prover.add_share", tasks[t].difficulty>>)]
    /\ UNCHANGED <<connected_provers, authenticated_provers,
                   prover_address_connections, pool_state, template,
                   nonce_seen, locks, told, window, env,
                   outbound>>

\* pool_state.write().await.add_share(difficulty).await
SubmitAddSharePool(t) ==
    /\ At(t, "ProverSubmit", "s15")
    /\ \E speed10 \in env.pool_speeds :
          pool_state' = PoolAddShare(pool_state, speed10)
    /\ tasks' = [tasks EXCEPT ![t].pc = "s16",
                     ![t].effects = Append(@,
                         <<"pool.add_share", tasks[t].difficulty>>)]
    /\ UNCHANGED <<maps, template, nonce_seen, locks, told, window, env,
                   outbound>>

\* A NewShare that carries the prover's own difficulty, not the share's.
NewShareUnscaled(t) ==
    <<"NewShare", prover_states[tasks[t].peer].address,
      prover_states[tasks[t].peer].current_difficulty>>

\* AccountingMessage::NewShare(prover_state.read().await.address(), difficulty)
NewShare(t) ==
    <<"NewShare", prover_states[tasks[t].peer].address, tasks[t].difficulty>>

SubmitSendShare(t) ==
    /\ At(t, "ProverSubmit", "s16")
    /\ tasks' = [tasks EXCEPT ![t].pc = "s17",
                     ![t].effects = Append(@, NewShare(t))]
    /\ UNCHANGED <<maps, pool_state, template, nonce_seen, locks, told, window, env,
                   outbound>>

\* Every accepted share taken for a block.
BlockFoundAlways(t) == TRUE

\* Whether the accepted share is a block: proof_difficulty <= the template's
\* difficulty_target.
BlockFound(t) ==
    tasks[t].proof[1].difficulty <=
        tasks[t].block_template[1].difficulty_target

\* send_result(sender, id, true, None, None); drop(provers); drop(states)
SubmitAccept(t) ==
    /\ At(t, "ProverSubmit", "s17")
    /\ tasks' = [tasks EXCEPT
           ![t].pc = IF BlockFound(t) THEN "s19" ELSE "done",
           ![t].result = "true",
           ![t].effects = Append(@, SendResult(TRUE, ""))]
    /\ window' = [window EXCEPT !.accepted[tasks[t].nonce] = Min(@ + 1, 2)]
    /\ authLock' = Released(authLock, t)
    /\ statesLock' = Released(statesLock, t)
    /\ SubmitSent(t)
    /\ UNCHANGED <<maps, pool_state, template, nonce_seen, told, env>>

\* OperatorMessage::PoolBlock(nonce, proof), then
\* AccountingMessage::NewBlock(block_height, block_hash, reward)
SubmitBlock(t) ==
    /\ At(t, "ProverSubmit", "s19")
    /\ tasks' = [tasks EXCEPT ![t].pc = "done",
                     ![t].effects = @ \o
                         << <<"PoolBlock", tasks[t].nonce>>,
                            <<"NewBlock", tasks[t].block_height,
                              HeaderTree(tasks[t].block_template[1]).root>> >>]
    /\ UNCHANGED <<maps, pool_state, template, nonce_seen, locks, told, window, env,
                   outbound>>

\* The validation task has ended and its slot is free again.
Retire(t) ==
    /\ tasks[t].pc = "done"
    /\ tasks' = [tasks EXCEPT ![t] = Idle]
    /\ UNCHANGED <<maps, pool_state, template, nonce_seen, locks, told, window, env,
                   outbound>>

\* ------------------------------------------------- the nonce ticker

\* A window: the time between two clears of nonce_seen, with how often each
\* nonce passed the duplicate check in it and how many shares with it were
\* accepted in it (both counted up to 2).
NewWindow == [passed |-> [n \in Nonces |-> 0],
              accepted |-> [n \in Nonces |-> 0]]

\* nonce.pin().clear(), every 60 seconds: a new window starts.
ClearNonces ==
    /\ nonce_seen' = {}
    /\ window' = NewWindow
    /\ UNCHANGED <<maps, pool_state, template, locks, told, tasks, env, outbound>>

\* ---------------------------------------------------------------- system

\* The environment of the connection maps: two peers under two addresses,
\* shares that leave every difficulty at 1.
MapsEnv == [tasks |-> 1..MaxTasks, undrained |-> {},
            peers |-> Peers, addrs |-> Addrs, nonces |-> {"x"},
            heights |-> {1}, submit_heights |-> {1},
            proof_difficulties |-> {1},
            prover_speeds |-> {0}, pool_speeds |-> {0}]

\* The environment of the share pipeline: one peer, every kind of proof,
\* speedometers that move the difficulties.
ShareEnv == [tasks |-> 1..MaxTasks, undrained |-> {},
             peers |-> {"p1"}, addrs |-> {"A"}, nonces |-> {"x"},
             heights |-> {1}, submit_heights |-> Heights,
             proof_difficulties |-> ProofDifficulties,
             prover_speeds |-> 0..MaxProverSpeed,
             pool_speeds |-> 0..MaxPoolSpeed]

Start ==
    /\ connected_provers = {}
    /\ authenticated_provers = {}
    /\ prover_states = EmptyMap
    /\ prover_address_connections = EmptyMap
    /\ pool_state = NewPoolState
    /\ latest_block_height = 0
    /\ latest_block_template = <<>>
    /\ latest_block_template_header_tree = <<>>
    /\ nonce_seen = {}
    /\ authLock = FreeLock
    /\ statesLock = FreeLock
    /\ tasks = [t \in Tasks |-> Idle]
    /\ told = [p \in Peers |-> 0]
    /\ window = NewWindow
    /\ outbound = [p \in Peers |-> <<>>]

ConnectedSteps(t) ==
    \/ \E p \in env.peers : ReceiveProverConnected(t, p)
    \/ ProverConnected(t)

AuthenticatedSteps(t) ==
    \/ \E p \in env.peers, a \in env.addrs :
           ReceiveProverAuthenticated(t, p, a)
    \/ AuthInsertSender(t)
    \/ AuthInsertState(t)
    \/ AuthInsertConnection(t)
    \/ AuthSendTarget(t)
    \/ AuthSendNotify(t)

DisconnectedSteps(t) ==
    \/ \E p \in env.peers : ReceiveProverDisconnected(t, p)
    \/ DiscRemoveState(t)
    \/ DiscRemoveConnection(t)
    \/ DiscRemoveConnected(t)
    \/ DiscRemoveSender(t)

TemplateSteps(t) ==
    \/ \E h \in env.heights, tg \in TemplateTargets :
           ReceiveNewBlockTemplate(t, h, tg)
    \/ TemplateStoreHeight(t)
    \/ TemplateReplace(t)
    \/ TemplateReplaceTree(t)
    \/ TemplatePromotePool(t)
    \/ TemplateSnapshot(t)
    \/ TemplateLookup(t)
    \/ TemplatePromoteProver(t)
    \/ TemplateSendTarget(t)
    \/ TemplateSend(t)
    \/ TemplateDone(t)

SubmitSteps(t) ==
    \/ \E p \in env.peers, h \in env.submit_heights, n \in env.nonces :
           ReceiveProverSubmit(t, p, h, n)
    \/ SubmitLoadHeight(t)
    \/ SubmitLoadModifier(t)
    \/ SubmitReadStates(t)
    \/ SubmitLookup(t)
    \/ SubmitReadTemplate(t)
    \/ SubmitCheckNonce(t)
    \/ SubmitCheckProof(t)
    \/ SubmitAddShareProver(t)
    \/ SubmitAddSharePool(t)
    \/ SubmitSendShare(t)
    \/ SubmitAccept(t)
    \/ SubmitBlock(t)
    \/ Retire(t)

\* The connection handlers alone: ProverConnected, ProverAuthenticated and
\* ProverDisconnected of two peers under two addresses.
Next ==
    \E t \in 1..MaxTasks :
        \/ ConnectedSteps(t)
        \/ AuthenticatedSteps(t)
        \/ DisconnectedSteps(t)

\* The share pipeline: ProverAuthenticated, NewBlockTemplate, ProverSubmit
\* and the nonce ticker, for one peer.
NextShare ==
    \/ \E t \in 1..MaxTasks :
          \/ AuthenticatedSteps(t)
          \/ TemplateSteps(t)
          \/ SubmitSteps(t)
          \/ Wait(t)
    \/ ClearNonces

Init == Start /\ env = MapsEnv
InitShare == Start /\ env = ShareEnv

Spec == Init /\ [][Next]_vars
SpecShare == InitShare /\ [][NextShare]_vars

\* ------------------------------------------------- contended locks

\* The environment of the lock scenario: two peers that were authenticated
\* and do not come back once their connection has ended, one of them
\* submitting shares that are all for a height no template has, and at most room[kind] messages of a
\* kind in flight at a time.
LocksEnv == [tasks |-> 1..MaxLockTasks, undrained |-> {},
             room |-> [ProverDisconnected |-> 2, NewBlockTemplate |-> 1,
                       ProverSubmit |-> 1],
             peers |-> Peers, submitters |-> {"p1"},
             addrs |-> {"A"}, nonces |-> {"x"},
             heights |-> {1}, submit_heights |-> {MaxHeight},
             proof_difficulties |-> {1},
             prover_speeds |-> {0}, pool_speeds |-> {0}]

\* There is room for one more message of this kind.
Room(kind) ==
    Cardinality({u \in Tasks : tasks[u].kind = kind}) < env.room[kind]

\* The inbound loop hands the next message to a new task: a connection
\* sends its shares before the one ProverDisconnected that ends it, and the
\* node sends templates of increasing height.
ReceiveOne(t) ==
    \/ /\ Room("ProverDisconnected")
       /\ \E p \in env.peers : Open(p) /\ ReceiveProverDisconnected(t, p)
    \/ /\ Room("NewBlockTemplate")
       /\ \E h \in env.heights, tg \in TemplateTargets :
              h > latest_block_height /\ ReceiveNewBlockTemplate(t, h, tg)
    \/ /\ Room("ProverSubmit")
       /\ \E p \in env.submitters, h \in env.submit_heights,
             n \in env.nonces :
              Open(p) /\ ReceiveProverSubmit(t, p, h, n)

\* One step of the handler that task t runs.
Progress(t) ==
    \/ Wait(t)
    \/ DiscRemoveState(t)
    \/ DiscRemoveConnection(t)
    \/ DiscRemoveConnected(t)
    \/ DiscRemoveSender(t)
    \/ TemplateStoreHeight(t)
    \/ TemplateReplace(t)
    \/ TemplateReplaceTree(t)
    \/ TemplatePromotePool(t)
    \/ TemplateSnapshot(t)
    \/ TemplateLookup(t)
    \/ TemplatePromoteProver(t)
    \/ TemplateSendTarget(t)
    \/ TemplateSend(t)
    \/ TemplateDone(t)
    \/ SubmitLoadHeight(t)
    \/ SubmitLoadModifier(t)
    \/ SubmitReadStates(t)
    \/ SubmitLookup(t)
    \/ SubmitReadTemplate(t)
    \/ Retire(t)

NextLocks == \E t \in Tasks : ReceiveOne(t) \/ Progress(t)

\* The server after ProverConnected and ProverAuthenticated of both peers
\* have been handled one after the other.
InitLocks ==
    /\ connected_provers = Peers
    /\ authenticated_provers = Peers
    /\ prover_states = [p \in Peers |-> NewProverState("A")]
    /\ prover_address_connections =
           ConnectionsInsert(ConnectionsInsert(EmptyMap, "A", "p1"), "A", "p2")
    /\ pool_state = NewPoolState
    /\ latest_block_height = 0
    /\ latest_block_template = <<>>
    /\ latest_block_template_header_tree = <<>>
    /\ nonce_seen = {}
    /\ authLock = FreeLock
    /\ statesLock = FreeLock
    /\ tasks = [t \in Tasks |-> Idle]
    /\ told = [p \in Peers |-> U64_MAX]
    /\ window = NewWindow
    /\ outbound = [p \in Peers |-> <<>>]
    /\ env = LocksEnv

\* The runtime runs every task that can take a step: each spawned task is
\* scheduled again and again until it ends.
SpecLocks ==
    /\ InitLocks
    /\ [][NextLocks]_vars
    /\ \A t \in Tasks : WF_vars(Progress(t))

\* ------------------------------------------------- shares under fair scheduling

\* The environment of the fair share scenario: one authenticated peer that
\* submits shares until its connection ends, one message of each kind in
\* flight at a time, so that a validation runs beside a fan-out and a
\* disconnect.
SubmitEnv == [tasks |-> 1..(MaxTasks + 1), undrained |-> {},
              room |-> [ProverDisconnected |-> 1, NewBlockTemplate |-> 1,
                        ProverSubmit |-> 1],
              peers |-> {"p1"}, submitters |-> {"p1"},
              addrs |-> {"A"}, nonces |-> {"x"},
              heights |-> Heights, submit_heights |-> Heights,
              proof_difficulties |-> ProofDifficulties,
              prover_speeds |-> {0}, pool_speeds |-> {0}]

\* One step of the validation of a share that is for the current template.
Validation(t) ==
    \/ SubmitCheckNonce(t)
    \/ SubmitCheckProof(t)
    \/ SubmitAddShareProver(t)
    \/ SubmitAddSharePool(t)
    \/ SubmitSendShare(t)
    \/ SubmitAccept(t)
    \/ SubmitBlock(t)

NextSubmit ==
    \E t \in 1..(MaxTasks + 1) : ReceiveOne(t) \/ Progress(t) \/ Validation(t)

\* The server after ProverConnected(p1) and ProverAuthenticated(p1, A).
InitSubmit ==
    /\ connected_provers = {"p1"}
    /\ authenticated_provers = {"p1"}
    /\ prover_states = MapInsert(EmptyMap, "p1", NewProverState("A"))
    /\ prover_address_connections = ConnectionsInsert(EmptyMap, "A", "p1")
    /\ pool_state = NewPoolState
    /\ latest_block_height = 0
    /\ latest_block_template = <<>>
    /\ latest_block_template_header_tree = <<>>
    /\ nonce_seen = {}
    /\ authLock = FreeLock
    /\ statesLock = FreeLock
    /\ tasks = [t \in Tasks |-> Idle]
    /\ told = [p \in Peers |-> IF p = "p1" THEN U64_MAX ELSE 0]
    /\ window = NewWindow
    /\ outbound = [p \in Peers |-> <<>>]
    /\ env = SubmitEnv

SpecSubmit ==
    /\ InitSubmit
    /\ [][NextSubmit]_vars
    /\ \A t \in Tasks : WF_vars(Progress(t) \/ Validation(t))

\* ------------------------------------------------- the fan-out

\* The environment of the fan-out scenario: p1 is authenticated and has
\* stopped reading its channel, p2 is connected and authenticates once; the
\* peers in undrained leave what they are sent in their channels.
FanoutEnv(undrained) ==
    [tasks |-> 1..MaxTasks, undrained |-> undrained,
     room |-> [ProverAuthenticated |-> 1, ProverDisconnected |-> 1,
               NewBlockTemplate |-> 1],
     peers |-> Peers, submitters |-> {},
     addrs |-> {"A"}, nonces |-> {"x"},
     heights |-> 2..(MaxHeight + 1), submit_heights |-> {},
     proof_difficulties |-> {},
     prover_speeds |-> {0}, pool_speeds |-> {0}]

\* The inbound loop hands the next message to a new task: a connection
\* authenticates once, and the node sends templates of increasing height.
ReceiveFanout(t) ==
    \/ /\ Room("ProverAuthenticated")
       /\ \E p \in env.peers, a \in env.addrs :
              /\ Open(p)
              /\ p \notin authenticated_provers
              /\ ReceiveProverAuthenticated(t, p, a)
    \/ /\ Room("ProverDisconnected")
       /\ \E p \in env.peers : Open(p) /\ ReceiveProverDisconnected(t, p)
    \/ /\ Room("NewBlockTemplate")
       /\ \E h \in env.heights, tg \in TemplateTargets :
              h > latest_block_height /\ ReceiveNewBlockTemplate(t, h, tg)

\* One step of the handler that task t runs.
ProgressFanout(t) ==
    \/ Wait(t)
    \/ AuthInsertSender(t)
    \/ AuthInsertState(t)
    \/ AuthInsertConnection(t)
    \/ AuthSendTarget(t)
    \/ AuthSendNotify(t)
    \/ DiscRemoveState(t)
    \/ DiscRemoveConnection(t)
    \/ DiscRemoveConnected(t)
    \/ DiscRemoveSender(t)
    \/ TemplateStoreHeight(t)
    \/ TemplateReplace(t)
    \/ TemplateReplaceTree(t)
    \/ TemplatePromotePool(t)
    \/ TemplateSnapshot(t)
    \/ TemplateLookup(t)
    \/ TemplatePromoteProver(t)
    \/ TemplateSendTarget(t)
    \/ TemplateSend(t)
    \/ TemplateDone(t)

NextFanout ==
    \E t \in 1..MaxTasks : ReceiveFanout(t) \/ ProgressFanout(t)

\* The server with the template of height 1, after p1 authenticated,
\* submitted shares and has taken every message sent to it so far, and
\* after ProverConnected(p2); the difficulties are those that shares and
\* the template of height 1 can have left.
InitFanout ==
    /\ connected_provers = Peers
    /\ authenticated_provers = {"p1"}
    /\ \E c, n \in 1..MaxProverSpeed :
           prover_states =
               MapInsert(EmptyMap, "p1",
                         [address |-> "A", current_difficulty |-> c,
                          next_difficulty |-> n])
    /\ prover_address_connections = ConnectionsInsert(EmptyMap, "A", "p1")
    /\ \E h \in GDen..MaxPoolSpeed :
           pool_state = [current_global_difficulty_modifier |-> GDen,
                         next_global_difficulty_modifier |-> h]
    /\ latest_block_height = 1
    /\ \E tg \in TemplateTargets :
           /\ latest_block_template =
                  <<[block_height |-> 1, difficulty_target |-> tg]>>
           /\ latest_block_template_header_tree =
                  <<HeaderTree([block_height |-> 1, difficulty_target |-> tg])>>
    /\ nonce_seen = {}
    /\ authLock = FreeLock
    /\ statesLock = FreeLock
    /\ tasks = [t \in Tasks |-> Idle]
    /\ told = [p \in Peers |->
                  IF p = "p1"
                  THEN TargetOf(ScaledDifficulty(
                           prover_states["p1"].current_difficulty,
                           pool_state.current_global_difficulty_modifier))
                  ELSE 0]
    /\ window = NewWindow
    /\ outbound = [p \in Peers |-> <<>>]
    /\ env \in {FanoutEnv({"p1"}), FanoutEnv(Peers)}

SpecFanout ==
    /\ InitFanout
    /\ [][NextFanout]_vars
    /\ \A t \in Tasks : WF_vars(ProgressFanout(t))

\* ---------------------------------------------------------------- claims

\* The validation tasks of ProverSubmit messages.
Submits == {t \in Tasks : tasks[t].kind = "ProverSubmit"}

\* The share target of the prover's current difficulty under modifier g.
ShareTarget(p, g) ==
    TargetOf(ScaledDifficulty(prover_states[p].current_difficulty, g))

\* C1: in every reachable state a peer is a key of authenticated_provers
\* exactly when it is a key of prover_states.
C1_AuthenticatedIffState ==
    authenticated_provers = DOMAIN prover_states

\* C2: every peer in the connection set of an address has a ProverState
\* whose address is that address.
C2_ConnectionsMatchAddress ==
    \A a \in DOMAIN prover_address_connections :
        \A p \in prover_address_connections[a] :
            /\ p \in DOMAIN prover_states
            /\ prover_states[p].address = a

\* C3: a peer is in the connection set of some address exactly when it is in
\* authenticated_provers and in prover_states, and the sizes of the connection
\* sets add up to the number of authenticated provers.
C3_ConnectionIffAuthenticated ==
    LET pac == prover_address_connections IN
    /\ \A p \in Peers :
           (\E a \in DOMAIN pac : p \in pac[a])
               <=> (p \in authenticated_provers /\ p \in DOMAIN prover_states)
    /\ Cardinality({ap \in Addrs \X Peers :
                       ap[1] \in DOMAIN pac /\ ap[2] \in pac[ap[1]]})
           = Cardinality(authenticated_provers)

\* C4 as stated: between two consecutive clears of nonce_seen no two submits
\* with the same nonce are both accepted.
C4_OneAcceptPerWindow ==
    \A n \in Nonces : window.accepted[n] <= 1

\* C4 amended: between two consecutive clears of nonce_seen at most one
\* submit of a nonce passes the duplicate check, and only a submit that
\* passed it is accepted.
C4_OnePassPerWindow ==
    /\ \A n \in Nonces : window.passed[n] <= 1
    /\ \A t \in Submits :
           tasks[t].result = "true" =>
               Len(tasks[t].checks) >= 4 /\ tasks[t].checks[4]

\* A second submit of a nonce is refused as a duplicate in the window in
\* which the first one passed the check and was accepted.
C4_Witness ==
    \E t \in Submits :
        /\ tasks[t].result = "Duplicate nonce"
        /\ window.passed[tasks[t].nonce] = 1
        /\ window.accepted[tasks[t].nonce] = 1

\* C5 as stated: a share is accepted only if its proof verified and its
\* proof difficulty is at most the share target of the prover's current
\* difficulty and the pool's current modifier at the time it is accepted.
C5_AcceptedMeetsCurrentTarget ==
    [][\A t \in Tasks :
          At(t, "ProverSubmit", "s17") /\ tasks'[t].result = "true" =>
              /\ tasks[t].checks[7]
              /\ tasks[t].proof[1].difficulty <=
                     ShareTarget(tasks[t].peer,
                         pool_state.current_global_difficulty_modifier)]_vars

\* C5 amended: a share passes the checks of its proof only if the proof
\* verifies and its difficulty is at most the share target of the prover's
\* current difficulty at that check and the modifier sampled when the submit
\* was dispatched, and only such a share is accepted.
C5_AcceptedMeetsSampledTarget ==
    /\ [](\A t \in Submits :
              tasks[t].result = "true" =>
                  /\ Len(tasks[t].checks) = 7
                  /\ \A i \in 1..7 : tasks[t].checks[i]
                  /\ tasks[t].proof[1].valid
                  /\ tasks[t].proof[1].difficulty # Err
                  /\ tasks[t].proof[1].difficulty <= tasks[t].target)
    /\ [][\A t \in Tasks :
             At(t, "ProverSubmit", "s10") /\ tasks'[t].pc = "s14" =>
                 LET target == ShareTarget(tasks[t].peer, tasks[t].modifier)
                     proof == tasks'[t].proof[1] IN
                 /\ tasks'[t].target = target
                 /\ proof.difficulty # Err
                 /\ proof.difficulty <= target
                 /\ PoSWVerify(tasks[t].block_height, target,
                               tasks[t].block_template[1], proof)]_vars

\* A share about to be accepted whose validated target is no longer the
\* share target of the prover's current difficulty and the pool's modifier.
C5_Witness ==
    \E t \in Tasks :
        /\ At(t, "ProverSubmit", "s17")
        /\ tasks[t].target #
               ShareTarget(tasks[t].peer,
                           pool_state.current_global_difficulty_modifier)

\* C6 as stated: when a submit of a peer that has been sent a SetTarget
\* reaches the difficulty-target check, the share target it is compared with
\* is the target of the last SetTarget sent to that peer.
C6_TargetIsLastTold ==
    [][\A t \in Tasks :
          /\ At(t, "ProverSubmit", "s10")
          /\ Len(tasks'[t].checks) >= 6
          /\ told[tasks[t].peer] # 0
          => tasks'[t].target = told[tasks[t].peer]]_vars

\* C7: every prover's current and next difficulty is at least 1 and both
\* global modifiers are at least 1.0.
C7_DifficultiesAtLeastOne ==
    /\ \A p \in DOMAIN prover_states :
           /\ prover_states[p].current_difficulty >= 1
           /\ prover_states[p].next_difficulty >= 1
    /\ pool_state.current_global_difficulty_modifier >= GDen
    /\ pool_state.next_global_difficulty_modifier >= GDen

\* A prover and the pool that were raised above 1 by earlier shares and whose
\* next values are back at the floor.
C7_Witness ==
    /\ \E p \in DOMAIN prover_states :
           /\ prover_states[p].current_difficulty > 1
           /\ prover_states[p].next_difficulty = 1
    /\ pool_state.current_global_difficulty_modifier > GDen
    /\ pool_state.next_global_difficulty_modifier = GDen

\* C8: a submit of a peer with a sender is rejected by the first check that
\* fails, in the order unknown prover, no template, stale height, duplicate
\* nonce, no proof difficulty, target not met, invalid proof, with the codes
\* 24, 21, 21, 22, 23, 23, 26; nothing after the failing check is evaluated
\* and the Response is all it sends; a submit that fails none is accepted.
C8_FirstFailingCheck ==
    /\ [](\A t \in Submits :
        LET c == tasks[t].checks
            k == Len(c)
            order == <<"Unknown prover", "No block template", "Stale proof",
                       "Duplicate nonce", "No difficulty",
                       "Difficulty target not met", "Invalid proof">>
            codes == <<24, 21, 21, 22, 23, 23, 26>> IN
        tasks[t].result # "Sender not found" =>
            /\ k <= 7
            /\ \A i \in 1..(k - 1) : c[i]
            /\ k >= 3 => c[3] = (tasks[t].block_height =
                                     tasks[t].latest_block_height)
            /\ k >= 5 => c[5] = (tasks[t].proof[1].difficulty # Err)
            /\ k >= 6 => c[6] = (tasks[t].proof[1].difficulty
                                     <= tasks[t].target)
            /\ k >= 7 => c[7] = PoSWVerify(tasks[t].block_height,
                                           tasks[t].target,
                                           tasks[t].block_template[1],
                                           tasks[t].proof[1])
            /\ IF k >= 1 /\ ~c[k]
               THEN /\ tasks[t].pc = "done"
                    /\ tasks[t].result = order[k]
                    /\ tasks[t].effects =
                           << <<"Response", FALSE, codes[k], order[k]>> >>
               ELSE /\ tasks[t].result \in {"", "true"}
                    /\ tasks[t].pc = "done" => tasks[t].result = "true"
                    /\ tasks[t].result = "true" => k = 7)
    /\ [][\A t \in Tasks :
             /\ tasks[t].kind = "ProverSubmit"
             /\ tasks'[t].kind = "ProverSubmit"
             /\ tasks'[t] # tasks[t]
             =>  LET c == tasks'[t].checks
                     k == Len(tasks[t].checks) IN
                 /\ (k < 1 /\ Len(c) >= 1) =>
                        c[1] = (tasks[t].peer \in DOMAIN prover_states)
                 /\ (k < 2 /\ Len(c) >= 2) =>
                        c[2] = (latest_block_template # <<>>)
                 /\ (k < 4 /\ Len(c) >= 4) =>
                        /\ c[4] = (tasks[t].nonce \notin nonce_seen)
                        /\ tasks[t].nonce \in nonce_seen'
                 /\ Len(c) < 4 => nonce_seen' = nonce_seen]_vars

\* A stale submit whose nonce is in nonce_seen as well is answered as stale.
C8_Witness ==
    \E t \in Submits :
        /\ tasks[t].result = "Stale proof"
        /\ tasks[t].nonce \in nonce_seen

\* C9 as stated: a submit whose block_height differs from the
\* latest_block_height it is checked against is answered 21 "Stale proof".
C9_StaleAnsweredStale ==
    \A t \in Submits :
        /\ tasks[t].pc = "done"
        /\ tasks[t].block_height # tasks[t].latest_block_height
        => tasks[t].effects = << <<"Response", FALSE, 21, "Stale proof">> >>

\* C9 amended: a submit whose block_height differs from the
\* latest_block_height sampled at its dispatch changes no state and sends
\* nothing to accounting or the operator; if the peer's sender and
\* ProverState are found and a template is cached, its only answer is
\* 21 "Stale proof".
C9_StaleChangesNothing ==
    /\ [](\A t \in Submits :
              /\ tasks[t].pc = "done"
              /\ tasks[t].block_height # tasks[t].latest_block_height
              => /\ tasks[t].result \in {"Sender not found", "Unknown prover",
                                         "No block template", "Stale proof"}
                 /\ Len(tasks[t].checks) >= 3 =>
                        tasks[t].effects =
                            << <<"Response", FALSE, 21, "Stale proof">> >>
                 /\ \A i \in 1..Len(tasks[t].effects) :
                        tasks[t].effects[i][1] = "Response")
    /\ [][\A t \in Tasks :
             /\ tasks[t].kind = "ProverSubmit"
             /\ tasks[t].pc # "s1"
             /\ tasks[t].block_height # tasks[t].latest_block_height
             /\ tasks'[t] # tasks[t]
             => UNCHANGED <<maps, pool_state, template, nonce_seen,
                            told, window>>]_vars

\* A stale submit that reached the height check and was answered.
C9_Witness ==
    \E t \in Submits :
        /\ tasks[t].pc = "done"
        /\ tasks[t].block_height # tasks[t].latest_block_height
        /\ tasks[t].result = "Stale proof"

\* C10: an accepted share of difficulty d, the difficulty it was validated
\* with, has caused the prover's add_share(d), the pool's add_share(d) and
\* one NewShare(address, d) with the prover's address, each once and in this
\* order, before its Response true.
C10_AcceptedShareEffects ==
    \A t \in Submits :
        LET e == tasks[t].effects
            d == tasks[t].difficulty IN
        /\ tasks[t].result = "true" =>
               /\ tasks[t].target = TargetOf(d)
               /\ Len(e) >= 4
               /\ e[1] = <<"prover.add_share", d>>
               /\ e[2] = <<"pool.add_share", d>>
               /\ e[3][1] = "NewShare" /\ e[3][2] \in Addrs /\ e[3][3] = d
               /\ e[4] = <<"Response", TRUE, 0, "">>
               /\ \A i \in 5..Len(e) : e[i][1] \in {"PoolBlock", "NewBlock"}
        /\ tasks[t].pc = "s17" =>
               e = << <<"prover.add_share", d>>, <<"pool.add_share", d>>,
                      <<"NewShare", prover_states[tasks[t].peer].address, d>> >>

\* An accepted share whose difficulty the modifier raised above the prover's.
C10_Witness ==
    \E t \in Submits :
        /\ tasks[t].result = "true"
        /\ tasks[t].pc = "done"
        /\ tasks[t].modifier > GDen
        /\ tasks[t].difficulty >
               prover_states[tasks[t].peer].current_difficulty

\* How often a message of the given kind is among the effects of task t.
Sent(t, kind) ==
    Cardinality({i \in 1..Len(tasks[t].effects) :
                    tasks[t].effects[i][1] = kind})

Fresh(p) ==
    /\ p \notin authenticated_provers
    /\ p \notin DOMAIN prover_states
    /\ \A a \in DOMAIN prover_address_connections :
           p \notin prover_address_connections[a]

\* C12: for a peer in none of the three maps, ProverAuthenticated(p, a, s)
\* followed by ProverDisconnected(p) leaves authenticated_provers,
\* prover_states and prover_address_connections as they were before.
C12_AuthenticateDisconnectRestores ==
    /\ [](\A p \in Peers, a \in Addrs :
              Fresh(p) =>
                  DisconnectedMaps(AuthenticatedMaps(Maps, p, a), p) = Maps)
    \* each step of the two handlers changes its map as the whole handler does
    /\ [][\A t \in Tasks :
             LET p == tasks[t].peer
                 auth == AuthenticatedMaps(Maps, p, tasks[t].address)
                 disc == DisconnectedMaps(Maps, p) IN
             tasks'[t] # tasks[t] =>
                 /\ At(t, "ProverAuthenticated", "a1") =>
                        authenticated_provers' = auth.authenticated_provers
                 /\ At(t, "ProverAuthenticated", "a2") =>
                        prover_states' = auth.prover_states
                 /\ At(t, "ProverAuthenticated", "a3") =>
                        prover_address_connections' =
                            auth.prover_address_connections
                 /\ At(t, "ProverDisconnected", "d1") =>
                        /\ prover_states' = disc.prover_states
                        /\ tasks'[t].pc = "d2" =>
                               ConnectionsRemove(prover_address_connections,
                                   tasks'[t].address[1], p)
                                   = disc.prover_address_connections
                 /\ At(t, "ProverDisconnected", "d2") =>
                        prover_address_connections' =
                            ConnectionsRemove(prover_address_connections,
                                              tasks[t].address[1], p)
                 /\ At(t, "ProverDisconnected", "d4") =>
                        authenticated_provers' = disc.authenticated_provers]_vars

\* A peer in none of the maps while another peer is connected under an
\* address, so that the pair adds to that address's set and to a new one.
C12_Witness ==
    \E p \in Peers, a, b \in Addrs :
        /\ Fresh(p)
        /\ a \in DOMAIN prover_address_connections
        /\ b \notin DOMAIN prover_address_connections
        /\ AuthenticatedMaps(Maps, p, a) # Maps
        /\ AuthenticatedMaps(Maps, p, b) # AuthenticatedMaps(Maps, p, a)

\* A handler that has made its first access to the shared state and has
\* accesses to it left.
Started(t) ==
    \/ tasks[t].kind = "ProverAuthenticated" /\ tasks[t].pc \in {"a2", "a3"}
    \/ tasks[t].kind = "ProverDisconnected"
           /\ tasks[t].pc \in {"d2", "d3", "d4"}
    \/ tasks[t].kind = "ProverSubmit"
           /\ tasks[t].pc \notin {"s1", "s19", "done"}

\* C16: the messages of one peer take effect in the order of the inbound
\* queue: no handler of a message of a peer starts to read or change state
\* before the handler of an earlier message of that peer has completed its
\* state changes, so no two handlers of one peer are under way at once.
C16_PerPeerOrder ==
    \A t, u \in Tasks :
        /\ t # u
        /\ tasks[t].kind \in {"ProverAuthenticated", "ProverDisconnected",
                              "ProverSubmit"}
        /\ tasks[u].kind \in {"ProverAuthenticated", "ProverDisconnected",
                              "ProverSubmit"}
        /\ tasks[t].peer = tasks[u].peer
        => ~(Started(t) /\ Started(u))

\* C17: a task that requests a lock while it holds another requests one that
\* comes later in the order authenticated_provers, prover_states, per-entry
\* ProverState, pool_state, prover_address_connections,
\* latest_block_template*.
C17_LockOrder ==
    LET rank == [l \in {"authenticated_provers", "prover_states", "entry",
                        "pool_state", "prover_address_connections",
                        "latest_block_template"} |->
                    CASE l = "authenticated_provers" -> 1
                      [] l = "prover_states" -> 2
                      [] l = "entry" -> 3
                      [] l = "pool_state" -> 4
                      [] l = "prover_address_connections" -> 5
                      [] l = "latest_block_template" -> 6] IN
    \A t \in Tasks :
        \A h \in Held(t), r \in Requests(tasks[t]) : rank[h] < rank[r]

\* C13: the first message sent on the channel of a newly authenticated
\* prover is SetTarget(u64::MAX), also when a NewBlockTemplate fan-out runs
\* beside the authentication handler: nothing has been sent on the channel
\* when the handler sends it, and the Notify of the handler follows it.
C13_TargetIsFirstMessage ==
    [][\A t \in Tasks :
           /\ (At(t, "ProverAuthenticated", "a4") /\ tasks'[t].pc = "a5")
                  => outbound[tasks[t].peer] = <<>>
           /\ (/\ At(t, "ProverAuthenticated", "a5")
               /\ tasks'[t].kind = "idle"
               /\ tasks[t].peer \in env.undrained
               /\ Open(tasks[t].peer))
                  => outbound'[tasks[t].peer] =
                         <<SetTarget(U64_MAX),
                           Notify(latest_block_height,
                                  latest_block_template_header_tree[1])>>]_vars

\* C14: when ProverDisconnected(p) is handled while the validation of a
\* ProverSubmit of p is in flight, the validation runs to completion and the
\* disconnect completes, after which p is in none of connected_provers,
\* authenticated_provers, prover_states and the sets of
\* prover_address_connections.
Validating(u, p) ==
    /\ tasks[u].kind = "ProverSubmit"
    /\ tasks[u].peer = p
    /\ tasks[u].pc \notin {"s1", "s2"}

Disconnecting(t, p) ==
    tasks[t].kind = "ProverDisconnected" /\ tasks[t].peer = p

Absent(p) ==
    /\ p \notin connected_provers
    /\ p \notin authenticated_provers
    /\ p \notin DOMAIN prover_states
    /\ \A a \in DOMAIN prover_address_connections :
           p \notin prover_address_connections[a]

C14_DisconnectCompletes ==
    \A p \in Peers :
        (\E t, u \in Tasks : Disconnecting(t, p) /\ Validating(u, p))
            ~> (/\ \A t \in Tasks : ~Disconnecting(t, p) /\ ~Validating(t, p)
                /\ Absent(p))

\* The Responses the validation task t has sent.
Responses(t) == SelectSeq(tasks[t].effects, LAMBDA e : e[1] = "Response")

\* Task t has sent exactly one Response: Bool(true) or an error with one
\* of the codes of send_result's callers.
Answered(t) ==
    /\ Len(Responses(t)) = 1
    /\ \/ Responses(t)[1][2]
       \/ Responses(t)[1][3] \in {21, 22, 23, 24, 26}

\* Task t found the sender and the ProverState of its peer and goes on.
LookedUp(t) ==
    /\ tasks[t].kind = "ProverSubmit"
    /\ tasks[t].pc \in {"s7", "s9", "s10", "s14", "s15", "s16", "s17"}

\* C15: every ProverSubmit whose peer has an outbound sender when it is
\* looked up produces exactly one Response, Bool(true) or an error with code
\* 21, 22, 23, 24 or 26: never a second one, one by the time the task ends,
\* and the task does end.
C15_ExactlyOneResponse ==
    /\ [](\A t \in Tasks :
             tasks[t].kind = "ProverSubmit" =>
                 /\ Len(Responses(t)) <= 1
                 /\ (/\ tasks[t].pc \in {"s19", "done"}
                     /\ tasks[t].result # "Sender not found") => Answered(t))
    /\ \A t \in Tasks :
           LookedUp(t) ~> (/\ tasks[t].kind = "ProverSubmit"
                           /\ tasks[t].pc = "done"
                           /\ Answered(t))

\* A share was accepted and completed a block while a disconnect of its
\* peer was in flight: one Response among the messages the task sent.
C15_Witness ==
    \E t, u \in Tasks :
        /\ tasks[t].kind = "ProverSubmit"
        /\ tasks[t].pc = "done"
        /\ tasks[t].result = "true"
        /\ Len(tasks[t].effects) > 1
        /\ Answered(t)
        /\ tasks[u].kind = "ProverDisconnected"

\* A handler of a ProverAuthenticated or ProverDisconnected of p is in
\* flight.
Handling(p) ==
    \E t \in Tasks :
        /\ tasks[t].kind \in {"ProverAuthenticated", "ProverDisconnected"}
        /\ tasks[t].peer = p

\* A fan-out has p in its snapshot and has not sent it its Notify yet.
Owed(p) ==
    \E t \in Tasks : tasks[t].kind = "NewBlockTemplate" /\ p \in tasks[t].todo

\* C19: a prover that does not drain its channel cannot block the others:
\* a fan-out still sends its Notify to every prover that does read, and the
\* ProverAuthenticated and ProverDisconnected of such a prover are still
\* handled to completion.
C19_SlowProverBlocksNobody ==
    \A p \in Peers :
        /\ (p \notin env.undrained /\ Owed(p)) ~> ~Owed(p)
        /\ (p \notin env.undrained /\ Handling(p)) ~> ~Handling(p)

\* C18: no interleaving of handlers deadlocks: whenever handlers are in
\* flight, one of them can take its next step, be it a lock it requests.
C18_NoDeadlock ==
    (\E t \in Tasks : tasks[t].kind # "idle")
        => \E t \in Tasks : ENABLED Progress(t)

\* What a step adds to the channel of p.
NewMessages(p) ==
    SubSeq(outbound'[p], Len(outbound[p]) + 1, Len(outbound'[p]))

\* The channel of p shows what is sent to it.
Observed(p) == p \in env.undrained /\ Open(p)

\* C20: what the fan-out of a NewBlockTemplate sends. Its snapshot is
\* authenticated_provers; a peer leaves the loop either without a
\* ProverState and with nothing sent, or with exactly one Notify of the
\* template, clean_jobs = true; the Notify is preceded by
\* SetTarget(u64::MAX / next) exactly when next, the promoted
\* next_difficulty scaled by g and truncated, differs from the
\* current_difficulty read before the promotion; a send that fails sends
\* nothing and the loop goes on; nothing else is sent, so nothing at all
\* when the snapshot is empty; and the fan-out ends with the loop.
C20_FanoutSends ==
    [][\A t \in Tasks :
          (tasks[t].kind = "NewBlockTemplate" /\ tasks'[t] # tasks[t]) =>
          LET k == tasks[t]
              p == tasks[t].peer
              g == tasks[t].modifier IN
          /\ \A q \in Peers :
                 NewMessages(q) # <<>> =>
                     q = p /\ k.pc \in {"n10", "n11"} /\ Observed(p)
          /\ (k.pc = "n6" /\ tasks'[t].pc = "n7") =>
                 tasks'[t].todo = authenticated_provers
          /\ (k.pc = "n7" /\ tasks'[t].kind = "NewBlockTemplate") =>
                 \/ tasks'[t].todo = k.todo
                 \/ \E q \in k.todo :
                        /\ tasks'[t].todo = k.todo \ {q}
                        /\ q \notin DOMAIN prover_states
          /\ (k.pc = "n7" /\ tasks'[t].pc = "n9") =>
                 /\ tasks'[t].peer \in k.todo
                 /\ tasks'[t].peer \in DOMAIN prover_states
                 /\ tasks'[t].current_difficulty =
                        prover_states[tasks'[t].peer].current_difficulty
          /\ (k.pc = "n5" /\ tasks'[t].pc = "n6") =>
                 tasks'[t].modifier =
                     pool_state.next_global_difficulty_modifier
          /\ (k.pc # "n5" /\ tasks'[t].kind = "NewBlockTemplate") =>
                 /\ tasks'[t].modifier = g
                 /\ tasks'[t].template = k.template
          /\ k.pc = "n9" =>
                 /\ tasks'[t].next_difficulty =
                        Min((prover_states[p].next_difficulty * g) \div GDen,
                            U64_MAX)
                 /\ tasks'[t].current_difficulty = k.current_difficulty
          /\ (k.pc = "n10" /\ Observed(p)) =>
                 /\ NewMessages(p) =
                        IF k.next_difficulty # k.current_difficulty
                        THEN <<SetTarget(U64_MAX \div k.next_difficulty)>>
                        ELSE <<>>
                 /\ tasks'[t].pc = "n11"
          /\ k.pc = "n11" =>
                 /\ NewMessages(p) =
                        IF Observed(p)
                        THEN << <<"Notify", k.template.block_height,
                                  HeaderTree(k.template).root, TRUE>> >>
                        ELSE <<>>
                 /\ tasks'[t].todo = k.todo \ {p}
                 /\ tasks'[t].pc = "n7"
          /\ tasks'[t].kind = "idle" => k.pc = "n7" /\ k.todo = {}]_vars

\* A fan-out has gone through its snapshot: q, whose connection ended
\* before anything was sent to it and whose ProverDisconnected is not
\* handled yet, was sent nothing, and p was sent SetTarget and Notify.
C20_Witness ==
    \E t, u \in Tasks, p, q \in Peers :
        /\ At(t, "NewBlockTemplate", "n7")
        /\ tasks[t].todo = {}
        /\ At(u, "ProverDisconnected", "d1")
        /\ tasks[u].peer = q
        /\ q \in env.undrained
        /\ q \in authenticated_provers
        /\ q \in DOMAIN prover_states
        /\ outbound[q] = <<>>
        /\ p # q
        /\ Len(outbound[p]) = 2
        /\ outbound[p][1][1] = "SetTarget"
        /\ outbound[p][2] = Notify(tasks[t].template.block_height,
                                   HeaderTree(tasks[t].template))

\* The pcs of a NewBlockTemplate handler after the promotion of the pool.
AfterPoolPromotion == {"n6", "n7", "n9", "n10", "n11"}

Validated(t) == tasks[t].kind = "ProverSubmit" /\ tasks[t].proof # <<>>

\* C22: at every share validation the difficulty_target of the template is
\* strictly below the share target u64::MAX / (current_difficulty * g), so
\* a proof that meets the target of the template is never answered
\* "Difficulty target not met".
C22_NetworkTargetBelowShareTarget ==
    \A t \in Tasks :
        Validated(t) =>
            /\ tasks[t].block_template[1].difficulty_target < tasks[t].target
            /\ tasks[t].result = "Difficulty target not met" =>
                   tasks[t].proof[1].difficulty
                       > tasks[t].block_template[1].difficulty_target

\* A validation that has passed every check: its share is accepted.
Accepted(t) ==
    /\ tasks[t].kind = "ProverSubmit"
    /\ tasks[t].pc \in {"s14", "s15", "s16", "s17", "s18", "s19"}

\* C23: every accepted share was verified against the template of its
\* block height: the template the validation has read, whose header root
\* goes into the PoSW verification and whose difficulty_target decides
\* whether a block was found, has the block_height the share was submitted
\* with.
C23_AcceptedAgainstOwnTemplate ==
    \A t \in Tasks :
        Accepted(t) =>
            tasks[t].block_template[1].block_height = tasks[t].block_height

\* The block height that the header root of a Notify was derived from.
RootHeight(msg) == msg[3][1]

\* C24: every Notify in the channel of a prover is consistent, its job_id
\* is the block height of the template that its header root comes from,
\* be it the Notify of an authentication or of a fan-out; and with no
\* handler in flight latest_block_height is the block_height of the cached
\* latest_block_template.
C24_NotifyConsistent ==
    /\ \A p \in Peers :
           \A i \in 1..Len(outbound[p]) :
               outbound[p][i][1] = "Notify" =>
                   outbound[p][i][2] = RootHeight(outbound[p][i])
    /\ ((\A t \in Tasks : tasks[t].kind = "idle")
            /\ latest_block_template # <<>>) =>
           latest_block_height = latest_block_template[1].block_height

\* Server::online_addresses: prover_address_connections.read().await.len()
online_addresses == Cardinality(DOMAIN prover_address_connections)

\* C25: no key of prover_address_connections maps to the empty set, so
\* online_addresses counts the addresses with at least one connection; a
\* key appears with exactly the peer that ProverAuthenticated inserts, and
\* goes when ProverDisconnected removes the last peer of its set.
C25_NoEmptyConnectionSet ==
    /\ [](/\ \A a \in DOMAIN prover_address_connections :
                 prover_address_connections[a] # {}
          /\ online_addresses =
                 Cardinality({a \in Addrs :
                     /\ a \in DOMAIN prover_address_connections
                     /\ \E p \in Peers : p \in prover_address_connections[a]}))
    /\ [][\A a \in Addrs :
             /\ (a \notin DOMAIN prover_address_connections
                     /\ a \in DOMAIN prover_address_connections') =>
                    \E t \in Tasks :
                        /\ At(t, "ProverAuthenticated", "a3")
                        /\ tasks[t].address = a
                        /\ prover_address_connections'[a] = {tasks[t].peer}
             /\ (a \in DOMAIN prover_address_connections
                     /\ a \notin DOMAIN prover_address_connections') =>
                    \E t \in Tasks :
                        /\ At(t, "ProverDisconnected", "d2")
                        /\ tasks[t].address = <<a>>
                        /\ prover_address_connections[a] = {tasks[t].peer}
             /\ (a \in DOMAIN prover_address_connections
                     /\ a \in DOMAIN prover_address_connections'
                     /\ prover_address_connections'[a]
                            # prover_address_connections[a]) =>
                    \E t \in Tasks :
                        \/ /\ At(t, "ProverAuthenticated", "a3")
                           /\ tasks[t].address = a
                           /\ prover_address_connections'[a] =
                                  prover_address_connections[a]
                                      \cup {tasks[t].peer}
                        \/ /\ At(t, "ProverDisconnected", "d2")
                           /\ tasks[t].address = <<a>>
                           /\ prover_address_connections'[a] =
                                  prover_address_connections[a]
                                      \ {tasks[t].peer}]_vars

\* The last peer of address A has disconnected and the key A is gone, while
\* address B still has a connection.
C25_Witness ==
    \E t \in Tasks :
        /\ At(t, "ProverDisconnected", "d3")
        /\ tasks[t].address = <<"A">>
        /\ "A" \notin DOMAIN prover_address_connections
        /\ "B" \in DOMAIN prover_address_connections
        /\ online_addresses = 1

\* C26: ProverDisconnected(p) for a peer that is in none of
\* authenticated_provers, prover_states and prover_address_connections
\* finds no state, skips the connection sets, removes p from
\* connected_provers and ends; it leaves the three maps, and what was sent,
\* as they were, and changes nothing at all when p is not in
\* connected_provers either, as after a first ProverDisconnected(p).
C26_DisconnectOfUnauthenticated ==
    /\ [](\A p \in Peers :
              Fresh(p) =>
                  /\ DisconnectedMaps(Maps, p) = Maps
                  /\ DisconnectedMaps(DisconnectedMaps(Maps, p), p) = Maps)
    /\ [][\A t \in Tasks :
             (/\ tasks[t].kind = "ProverDisconnected"
              /\ tasks'[t] # tasks[t]
              /\ Fresh(tasks[t].peer)) =>
                 LET p == tasks[t].peer IN
                 /\ Maps' = Maps
                 /\ told' = told
                 /\ outbound' = outbound
                 /\ At(t, "ProverDisconnected", "d1") =>
                        /\ tasks'[t].pc = "d3"
                        /\ tasks'[t].address = <<>>
                        /\ connected_provers' = connected_provers
                 /\ At(t, "ProverDisconnected", "d3") =>
                        /\ tasks'[t].pc = "d4"
                        /\ connected_provers' = connected_provers \ {p}
                 /\ At(t, "ProverDisconnected", "d4") =>
                        /\ tasks'[t] = Idle
                        /\ connected_provers' = connected_provers
                 /\ p \notin connected_provers =>
                        connected_provers' = connected_provers]_vars

\* ProverDisconnected(p) has found no state of p, which is connected and in
\* none of the maps, while the maps hold another peer.
C26_Witness ==
    \E t \in Tasks :
        /\ At(t, "ProverDisconnected", "d3")
        /\ tasks[t].address = <<>>
        /\ tasks[t].peer \in connected_provers
        /\ Fresh(tasks[t].peer)
        /\ authenticated_provers # {}
        /\ DOMAIN prover_states # {}
        /\ DOMAIN prover_address_connections # {}

====
